---------------------------- MODULE Spec2Model ----------------------------
(***************************************************************************)
(* Model of the SQL chatbot (src/app.py, with the earlier variant          *)
(* src/main.py): the /chat request pipeline                                *)
(*   question -> generate (completion service | fallback) -> validate      *)
(*            -> execute -> respond                                        *)
(* and the pure functions it is built from.  Python strings are TLA+       *)
(* strings; they are taken apart with Len, SubSeq and \o, so the lexical   *)
(* checks of the validator are computed character by character as the     *)
(* code computes them.                                                     *)
(***************************************************************************)
EXTENDS Integers, Sequences, FiniteSets, TLC

VARIABLES
    impl,               \* which application module serves: "app" | "main"
    groq_client,        \* module global: "configured" | "None"
    pc,                 \* position of the current /chat request
    data,               \* request.get_json()
    user_message,       \* chat(): user_message
    sql_query,          \* chat(): sql_query, None or Some(string)
    source,             \* ghost: path that produced sql_query
    validation,         \* chat(): (is_valid, validation_message), or None
    response,           \* the JSON body returned, or None
    http_status,        \* the HTTP status returned (0: none yet)
    calls,              \* ghost: components invoked in this request, in order
    database,           \* the store behind DATABASE_PATH
    connections,        \* connections opened and not closed
    executed,           \* ghost: the last execute_query that returned rows
    query,              \* validator harness: the candidate statement
    verdict,            \* validator harness: validate_sql_query(query), or None
    main_verdict,       \* validator harness: the same of src/main.py, or None
    nparts,             \* harnesses: parts appended to the text under test
    fallback_question,  \* fallback harness: the question
    fallback_results,   \* fallback harness: what each invocation returned
    content,            \* clean-up harness: message.content of the completion
    candidate,          \* clean-up harness: the cleaned sql_query, or None
    threads             \* concurrent requests: the locals of chat() per thread

vars == <<impl, groq_client, pc, data, user_message, sql_query, source,
          validation, response, http_status, calls, database, connections,
          executed, query, verdict,
          main_verdict, nparts, fallback_question, fallback_results, content,
          candidate, threads>>

chatVars == <<impl, groq_client, pc, data, user_message, sql_query, source,
              validation, response, http_status, calls, database, connections,
              executed>>

storageVars == <<database, connections, executed>>

harnessVars == <<query, verdict, main_verdict, nparts, fallback_question,
                 fallback_results, content, candidate, threads>>

validatorVars == <<query, verdict, main_verdict>>

fallbackVars == <<fallback_question, fallback_results>>

cleanupVars == <<content, candidate>>

threadVars == <<threads>>

-----------------------------------------------------------------------------
(* Python values *)

None == <<>>

Some(v) == <<v>>

\* Python truthiness of an optional string: 'not v' holds for None and "".
Falsy(v) == v = None \/ v[1] = ""

-----------------------------------------------------------------------------
(* str methods *)

\* Characters str.strip() removes and the regex class \s matches.
Whitespace == {" ", "\t", "\n", "\r", "\f"}

CharAt(s, i) == SubSeq(s, i, i)

LowerAlpha == "abcdefghijklmnopqrstuvwxyz"

UpperAlpha == "ABCDEFGHIJKLMNOPQRSTUVWXYZ"

AlphaIndex(alpha, c) == CHOOSE i \in 1..Len(alpha) : CharAt(alpha, i) = c

Letters(alpha) == {CharAt(alpha, i) : i \in 1..Len(alpha)}

\* The case mappings of the ASCII letters.
UpperOf == [c \in Letters(LowerAlpha) |-> CharAt(UpperAlpha, AlphaIndex(LowerAlpha, c))]

LowerOf == [c \in Letters(UpperAlpha) |-> CharAt(LowerAlpha, AlphaIndex(UpperAlpha, c))]

UpperChar(c) == IF c \in DOMAIN UpperOf THEN UpperOf[c] ELSE c

LowerChar(c) == IF c \in DOMAIN LowerOf THEN LowerOf[c] ELSE c

\* str.upper() and str.lower(), character by character (the text is split
\* in halves to keep the recursion shallow; halves is a function, so that the
\* text it is applied to is computed once).
RECURSIVE upper(_)
upper(s) ==
    LET halves[text \in STRING] ==
            IF Len(text) <= 1 THEN UpperChar(text)
            ELSE upper(SubSeq(text, 1, Len(text) \div 2))
                 \o upper(SubSeq(text, Len(text) \div 2 + 1, Len(text)))
    IN halves[s]

RECURSIVE lower(_)
lower(s) ==
    LET halves[text \in STRING] ==
            IF Len(text) <= 1 THEN LowerChar(text)
            ELSE lower(SubSeq(text, 1, Len(text) \div 2))
                 \o lower(SubSeq(text, Len(text) \div 2 + 1, Len(text)))
    IN halves[s]

RECURSIVE lstrip(_)
lstrip(s) == IF s # "" /\ CharAt(s, 1) \in Whitespace
             THEN lstrip(SubSeq(s, 2, Len(s)))
             ELSE s

RECURSIVE rstrip(_)
rstrip(s) == IF s # "" /\ CharAt(s, Len(s)) \in Whitespace
             THEN rstrip(SubSeq(s, 1, Len(s) - 1))
             ELSE s

strip(s) == rstrip(lstrip(s))

startswith(s, prefix) ==
    /\ Len(prefix) <= Len(s)
    /\ SubSeq(s, 1, Len(prefix)) = prefix

endswith(s, suffix) ==
    /\ Len(suffix) <= Len(s)
    /\ SubSeq(s, Len(s) - Len(suffix) + 1, Len(s)) = suffix

\* s[i:i+len(sub)] == sub
OccursAt(s, sub, i) ==
    /\ i + Len(sub) - 1 <= Len(s)
    /\ SubSeq(s, i, i + Len(sub) - 1) = sub

\* Python's 'sub in s'
Contains(s, sub) == \E i \in 1..(Len(s) + 1) : OccursAt(s, sub, i)

-----------------------------------------------------------------------------
(* re.search for the pattern shapes the validator uses.  A pattern is a    *)
(* sequence of elements: a literal alternative, \s* or .* ('.' matches any *)
(* character but a line break, as no flag is passed to re.search).         *)

Lit(alts) == [kind |-> "lit", alts |-> alts]

WsStar == [kind |-> "ws*", alts |-> <<>>]

DotStar == [kind |-> ".*", alts |-> <<>>]

\* The characters '.' matches without re.DOTALL.
DotMatches(c) == c # "\n"

RECURSIVE MatchAt(_, _, _, _)
MatchAt(pattern, k, s, i) ==
    IF k > Len(pattern) THEN TRUE
    ELSE LET e == pattern[k] IN
         CASE e.kind = "lit" ->
                \E a \in 1..Len(e.alts) :
                    /\ OccursAt(s, e.alts[a], i)
                    /\ MatchAt(pattern, k + 1, s, i + Len(e.alts[a]))
           [] e.kind = "ws*" ->
                \E j \in i..(Len(s) + 1) :
                    /\ \A t \in i..(j - 1) : CharAt(s, t) \in Whitespace
                    /\ MatchAt(pattern, k + 1, s, j)
           [] e.kind = ".*" ->
                \E j \in i..(Len(s) + 1) :
                    /\ \A t \in i..(j - 1) : DotMatches(CharAt(s, t))
                    /\ MatchAt(pattern, k + 1, s, j)

re_search(pattern, s) == \E i \in 1..(Len(s) + 1) : MatchAt(pattern, 1, s, i)

-----------------------------------------------------------------------------
(* SecureLocalChatbot.validate_sql_query (src/app.py) *)

dangerous_keywords ==
    << "DROP", "DELETE", "INSERT", "UPDATE", "ALTER", "CREATE", "TRUNCATE",
       "EXEC", "EXECUTE", "REPLACE", "MERGE", "PRAGMA", "ATTACH", "DETACH" >>

injection_patterns ==
    << << Lit(<<";">>), WsStar, Lit(<<"DROP", "DELETE", "INSERT", "UPDATE">>) >>,
       << Lit(<<"--">>) >>,
       << Lit(<<"/*">>), DotStar, Lit(<<"*/">>) >>,
       << Lit(<<"UNION">>), DotStar, Lit(<<"SELECT">>) >>,
       << Lit(<<"OR">>), DotStar, Lit(<<"1">>), WsStar, Lit(<<"=">>), WsStar, Lit(<<"1">>) >>,
       << Lit(<<"AND">>), DotStar, Lit(<<"1">>), WsStar, Lit(<<"=">>), WsStar, Lit(<<"1">>) >> >>

MsgEmpty == "Query cannot be empty"

MsgNonSelect == "Security: Only SELECT queries are allowed"

MsgForbidden(keyword) == "Forbidden keyword detected: " \o keyword

MsgInjection == "Potential SQL injection detected"

MsgPassed == "Query passed security validation"

Verdict(ok, msg) == [valid |-> ok, message |-> msg]

\* The test of the keyword loop for one keyword.
KeywordHit(query_upper, keyword) ==
    \/ Contains(" " \o query_upper \o " ", " " \o keyword \o " ")
    \/ startswith(query_upper, keyword \o " ")

\* validate_sql_query with the injection patterns tested before the
\* keyword loop.
validate_sql_query_InjectionFirst(q) ==
    IF Falsy(q) \/ strip(q[1]) = "" THEN Verdict(FALSE, MsgEmpty)
    ELSE LET checks[query_upper \in STRING] ==
         IF ~startswith(query_upper, "SELECT") THEN Verdict(FALSE, MsgNonSelect)
         ELSE IF \E p \in 1..Len(injection_patterns) :
                     re_search(injection_patterns[p], query_upper)
         THEN Verdict(FALSE, MsgInjection)
         ELSE IF \E k \in 1..Len(dangerous_keywords) :
                     KeywordHit(query_upper, dangerous_keywords[k])
         THEN LET k == CHOOSE k \in 1..Len(dangerous_keywords) :
                           /\ KeywordHit(query_upper, dangerous_keywords[k])
                           /\ \A j \in 1..(k - 1) :
                                  ~KeywordHit(query_upper, dangerous_keywords[j])
              IN Verdict(FALSE, MsgForbidden(dangerous_keywords[k]))
         ELSE Verdict(TRUE, MsgPassed)
         IN checks[upper(strip(q[1]))]

\* The query is an optional string: None, or Some(text).  checks is applied
\* to query_upper = query.strip().upper().
validate_sql_query(q) ==
    IF Falsy(q) \/ strip(q[1]) = "" THEN Verdict(FALSE, MsgEmpty)
    ELSE LET checks[query_upper \in STRING] ==
         IF ~startswith(query_upper, "SELECT") THEN Verdict(FALSE, MsgNonSelect)
         ELSE IF \E k \in 1..Len(dangerous_keywords) :
                     KeywordHit(query_upper, dangerous_keywords[k])
         THEN LET k == CHOOSE k \in 1..Len(dangerous_keywords) :
                           /\ KeywordHit(query_upper, dangerous_keywords[k])
                           /\ \A j \in 1..(k - 1) :
                                  ~KeywordHit(query_upper, dangerous_keywords[j])
              IN Verdict(FALSE, MsgForbidden(dangerous_keywords[k]))
         ELSE IF \E p \in 1..Len(injection_patterns) :
                     re_search(injection_patterns[p], query_upper)
         THEN Verdict(FALSE, MsgInjection)
         ELSE Verdict(TRUE, MsgPassed)
         IN checks[upper(strip(q[1]))]

-----------------------------------------------------------------------------
(* SecureChatbot.validate_sql_query (src/main.py): the earlier validator.  *)
(* It is only ever called with a string (chat() returns before it on a     *)
(* falsy sql_query).                                                       *)

main_dangerous_keywords ==
    << "DROP", "DELETE", "INSERT", "UPDATE", "ALTER", "CREATE",
       "EXEC", "EXECUTE", "TRUNCATE", "REPLACE", "MERGE" >>

MainMsgNonSelect == "Only SELECT queries are allowed for security reasons"

MainMsgForbidden(keyword) == "Query contains forbidden keyword: " \o keyword

MainMsgValid == "Query is valid"

\* checks is applied to query = query.strip().upper().
main_validate_sql_query(q) ==
    LET checks[query_upper \in STRING] ==
    IF ~startswith(query_upper, "SELECT") THEN Verdict(FALSE, MainMsgNonSelect)
    ELSE IF \E k \in 1..Len(main_dangerous_keywords) :
                Contains(query_upper, main_dangerous_keywords[k])
    THEN LET k == CHOOSE k \in 1..Len(main_dangerous_keywords) :
                      /\ Contains(query_upper, main_dangerous_keywords[k])
                      /\ \A j \in 1..(k - 1) :
                             ~Contains(query_upper, main_dangerous_keywords[j])
         IN Verdict(FALSE, MainMsgForbidden(main_dangerous_keywords[k]))
    ELSE Verdict(TRUE, MainMsgValid)
    IN checks[upper(strip(q[1]))]

-----------------------------------------------------------------------------
(* Response clean-up of generate_sql_from_natural_language (both modules)  *)

\* The fence is three backquotes.  A TLA+ string literal cannot hold a
\* backquote, so the model writes the backquote character as "~".
Backquote == "~"

Fence == Backquote \o Backquote \o Backquote

\* re.sub(r'^<fence>sql\n?', '', s)
StripOpeningFence(s) ==
    IF startswith(s, Fence \o "sql")
    THEN LET rest == SubSeq(s, Len(Fence) + 4, Len(s)) IN
         IF startswith(rest, "\n") THEN SubSeq(rest, 2, Len(rest)) ELSE rest
    ELSE s

\* re.sub(r'\n?<fence>$', '', s); '$' also matches before one final line break.
StripClosingFence(s) ==
    LET body == IF endswith(s, Fence \o "\n") THEN SubSeq(s, 1, Len(s) - 1) ELSE s
        tail == IF endswith(s, Fence \o "\n") THEN "\n" ELSE ""
    IN IF endswith(body, Fence)
       THEN LET cut == SubSeq(body, 1, Len(body) - Len(Fence)) IN
            (IF endswith(cut, "\n") THEN SubSeq(cut, 1, Len(cut) - 1) ELSE cut) \o tail
       ELSE s

\* content.strip(), the two substitutions, then strip() again
Sanitize(raw) == strip(StripClosingFence(StripOpeningFence(strip(raw))))

-----------------------------------------------------------------------------
(* SecureLocalChatbot.generate_fallback_sql (src/app.py) *)

ContainsAny(s, subs) == \E k \in 1..Len(subs) : Contains(s, subs[k])

\* generate_fallback_sql with the customer count trigger tested before the
\* customer listing trigger.
generate_fallback_sql_CountFirst(user_question) ==
    LET triggers[question_lower \in STRING] ==
    IF ContainsAny(question_lower, <<"count customers", "how many customers">>)
    THEN Some("SELECT COUNT(*) as customer_count FROM customers")
    ELSE IF ContainsAny(question_lower, <<"all customers", "show customers", "list customers">>)
    THEN IF Contains(question_lower, "active")
         THEN Some("SELECT * FROM customers WHERE status = 'active'")
         ELSE Some("SELECT * FROM customers")
    ELSE IF ContainsAny(question_lower, <<"all orders", "show orders", "list orders">>)
    THEN Some("SELECT * FROM orders ORDER BY order_date DESC")
    ELSE IF ContainsAny(question_lower, <<"count orders", "how many orders">>)
    THEN Some("SELECT COUNT(*) as order_count FROM orders")
    ELSE IF ContainsAny(question_lower, <<"all products", "show products", "list products">>)
    THEN IF Contains(question_lower, "electronics")
         THEN Some("SELECT * FROM products WHERE category = 'Electronics'")
         ELSE Some("SELECT * FROM products")
    ELSE IF ContainsAny(question_lower, <<"all employees", "show employees", "list employees">>)
    THEN Some("SELECT * FROM employees WHERE status = 'active'")
    ELSE IF Contains(question_lower, "revenue") /\ Contains(question_lower, "electronics")
    THEN Some("SELECT SUM(total_amount) as total_revenue FROM orders WHERE category = 'Electronics'")
    ELSE IF Contains(question_lower, "top") /\ Contains(question_lower, "customers")
    THEN Some("SELECT c.name, c.email, SUM(o.total_amount) as total_spent FROM customers c JOIN orders o ON c.id = o.customer_id GROUP BY c.id, c.name, c.email ORDER BY total_spent DESC LIMIT 5")
    ELSE None
    IN triggers[lower(user_question)]

\* generate_fallback_sql whose customer listing looks for 'active' as a word
\* of its own.
generate_fallback_sql_WordActive(user_question) ==
    LET triggers[question_lower \in STRING] ==
    IF ContainsAny(question_lower, <<"all customers", "show customers", "list customers">>)
    THEN IF Contains(" " \o question_lower \o " ", " active ")
         THEN Some("SELECT * FROM customers WHERE status = 'active'")
         ELSE Some("SELECT * FROM customers")
    ELSE IF ContainsAny(question_lower, <<"count customers", "how many customers">>)
    THEN Some("SELECT COUNT(*) as customer_count FROM customers")
    ELSE IF ContainsAny(question_lower, <<"all orders", "show orders", "list orders">>)
    THEN Some("SELECT * FROM orders ORDER BY order_date DESC")
    ELSE IF ContainsAny(question_lower, <<"count orders", "how many orders">>)
    THEN Some("SELECT COUNT(*) as order_count FROM orders")
    ELSE IF ContainsAny(question_lower, <<"all products", "show products", "list products">>)
    THEN IF Contains(question_lower, "electronics")
         THEN Some("SELECT * FROM products WHERE category = 'Electronics'")
         ELSE Some("SELECT * FROM products")
    ELSE IF ContainsAny(question_lower, <<"all employees", "show employees", "list employees">>)
    THEN Some("SELECT * FROM employees WHERE status = 'active'")
    ELSE IF Contains(question_lower, "revenue") /\ Contains(question_lower, "electronics")
    THEN Some("SELECT SUM(total_amount) as total_revenue FROM orders WHERE category = 'Electronics'")
    ELSE IF Contains(question_lower, "top") /\ Contains(question_lower, "customers")
    THEN Some("SELECT c.name, c.email, SUM(o.total_amount) as total_spent FROM customers c JOIN orders o ON c.id = o.customer_id GROUP BY c.id, c.name, c.email ORDER BY total_spent DESC LIMIT 5")
    ELSE None
    IN triggers[lower(user_question)]

\* triggers is applied to question_lower = user_question.lower().
generate_fallback_sql(user_question) ==
    LET triggers[question_lower \in STRING] ==
    IF ContainsAny(question_lower, <<"all customers", "show customers", "list customers">>)
    THEN IF Contains(question_lower, "active")
         THEN Some("SELECT * FROM customers WHERE status = 'active'")
         ELSE Some("SELECT * FROM customers")
    ELSE IF ContainsAny(question_lower, <<"count customers", "how many customers">>)
    THEN Some("SELECT COUNT(*) as customer_count FROM customers")
    ELSE IF ContainsAny(question_lower, <<"all orders", "show orders", "list orders">>)
    THEN Some("SELECT * FROM orders ORDER BY order_date DESC")
    ELSE IF ContainsAny(question_lower, <<"count orders", "how many orders">>)
    THEN Some("SELECT COUNT(*) as order_count FROM orders")
    ELSE IF ContainsAny(question_lower, <<"all products", "show products", "list products">>)
    THEN IF Contains(question_lower, "electronics")
         THEN Some("SELECT * FROM products WHERE category = 'Electronics'")
         ELSE Some("SELECT * FROM products")
    ELSE IF ContainsAny(question_lower, <<"all employees", "show employees", "list employees">>)
    THEN Some("SELECT * FROM employees WHERE status = 'active'")
    ELSE IF Contains(question_lower, "revenue") /\ Contains(question_lower, "electronics")
    THEN Some("SELECT SUM(total_amount) as total_revenue FROM orders WHERE category = 'Electronics'")
    ELSE IF Contains(question_lower, "top") /\ Contains(question_lower, "customers")
    THEN Some("SELECT c.name, c.email, SUM(o.total_amount) as total_spent FROM customers c JOIN orders o ON c.id = o.customer_id GROUP BY c.id, c.name, c.email ORDER BY total_spent DESC LIMIT 5")
    ELSE None
    IN triggers[lower(user_question)]

-----------------------------------------------------------------------------
(* Inputs of the /chat pipeline *)

\* Texts a client may send as the 'message' of the request body.
Questions ==
    { "", "  ", " \n\t",
      "Show all customers",
      "  list customers that are Active ",
      "How many orders were placed?",
      "List products",
      "Who are the top customers?",
      "What is the weather today?",
      "drop the customers table" }

\* request.get_json(): it raises on a body that is not JSON ("invalid"), or
\* returns JSON null, or an object that may hold 'message' (a string or
\* null) beside other keys.
Body(kind, keys, message) == [kind |-> kind, keys |-> keys, message |-> message]

Bodies ==
    { Body("invalid", {}, None), Body("null", {}, None), Body("dict", {}, None),
      Body("dict", {"user"}, None),
      Body("dict", {"message"}, None) }
    \cup { Body("dict", {"message"}, Some(q)) : q \in Questions }

\* Texts the completion service may return as message.content.
RawResponses ==
    { "SELECT * FROM customers",
      "  select name, email from customers where city = 'Pune'\n",
      Fence \o "sql\nSELECT COUNT(*) FROM orders\n" \o Fence,
      Fence \o "sql\n" \o Fence,
      "",
      "SELECT * FROM customers; DROP TABLE customers",
      "SELECT name FROM customers\nUNION\nSELECT name FROM employees",
      "SELECT * FROM orders -- everything",
      "DELETE FROM customers",
      "I cannot answer that question.",
      "SELECT * FROM customers ORDER BY random()",
      "SELECT * FROM customer",
      "SELECT 1;CREATE TABLE notes (id)" }

\* datetime.now().isoformat(): the clock is outside the model.
Timestamp == "now"

-----------------------------------------------------------------------------
(* The storage engine behind sqlite3.connect(DATABASE_PATH): the stored    *)
(* data, and what cursor.execute + fetchall answer to a statement.         *)

\* Column values: INTEGER, TEXT and REAL (a REAL is held in thousandths).
Integer(n) == [int |-> n]

Text(t) == [text |-> t]

Real(milli) == [real |-> milli]

\* The store init_database leaves behind (a few rows and columns of the
\* sample data), with the tables it creates.
SampleDatabase ==
    [ tables |-> {"customers", "orders", "products", "employees"},
      customers |->
        << [id |-> Integer(1), name |-> Text("John Smith"),
            email |-> Text("john.smith@techcorp.com"),
            city |-> Text("New York"), status |-> Text("active")],
           [id |-> Integer(4), name |-> Text("Emily Davis"),
            email |-> Text("emily.davis@enterprise.org"),
            city |-> Text("Houston"), status |-> Text("inactive")] >>,
      orders |->
        << [id |-> Integer(1), customer_id |-> Integer(1),
            category |-> Text("Electronics"), total_amount |-> Real(2499990),
            order_date |-> Text("2024-01-15")],
           [id |-> Integer(2), customer_id |-> Integer(4),
            category |-> Text("Electronics"), total_amount |-> Real(239973),
            order_date |-> Text("2024-02-03")] >>,
      products |->
        << [id |-> Integer(2), name |-> Text("Dell XPS 15"),
            category |-> Text("Electronics"), price |-> Real(1899990)],
           [id |-> Integer(4), name |-> Text("Office Chair Executive"),
            category |-> Text("Furniture"), price |-> Real(599990)] >>,
      employees |->
        << [id |-> Integer(1), name |-> Text("Alice Cooper"),
            status |-> Text("active")] >> ]

\* Schema as a store created by an earlier version has it, whose orders
\* carry no category.
Schema_NoOrderCategory ==
    [customers |-> { "id", "name", "email", "phone", "city", "country",
                     "registration_date", "status", "created_at" },
     orders |-> { "id", "customer_id", "product_name", "quantity",
                  "unit_price", "total_amount", "order_date", "status",
                  "created_at" },
     products |-> { "id", "name", "category", "price", "stock_quantity",
                    "description", "supplier", "created_date", "last_updated" },
     employees |-> { "id", "name", "email", "department", "position", "salary",
                     "hire_date", "manager_id", "status" }]

\* init_database: the tables it creates and the columns of each.
Schema ==
    [customers |-> { "id", "name", "email", "phone", "city", "country",
                     "registration_date", "status", "created_at" },
     orders |-> { "id", "customer_id", "product_name", "category", "quantity",
                  "unit_price", "total_amount", "order_date", "status",
                  "created_at" },
     products |-> { "id", "name", "category", "price", "stock_quantity",
                    "description", "supplier", "created_date", "last_updated" },
     employees |-> { "id", "name", "email", "department", "position", "salary",
                     "hire_date", "manager_id", "status" }]

\* The order in which the engine sorts the TEXT values of the sample data.
Collation ==
    << "2024-01-15", "2024-02-03", "Alice Cooper", "Emily Davis", "John Smith" >>

\* SQL NULL
Null == [null |-> TRUE]

RECURSIVE SumReal(_)
SumReal(amounts) ==
    IF amounts = <<>> THEN 0
    ELSE amounts[1].real + SumReal(Tail(amounts))

\* total_amount of the orders of customer c, in order of the orders
Amounts(db, c) ==
    LET of_c == SelectSeq(db.orders, LAMBDA o : o.customer_id = c.id)
    IN [i \in DOMAIN of_c |-> of_c[i].total_amount]

\* Position of a TEXT value in the sort order.
Rank(value) == CHOOSE i \in DOMAIN Collation : Collation[i] = value.text

\* The orderings of the elements of a sequence.
Orderings(seq) ==
    { [i \in DOMAIN seq |-> seq[f[i]]] :
        f \in { g \in [DOMAIN seq -> DOMAIN seq] :
                    \A i, j \in DOMAIN seq : i # j => g[i] # g[j] } }

\* SELECT name FROM customers UNION SELECT name FROM employees: the distinct
\* names, in sort order
UnionOfNames(db) ==
    LET names == { db.customers[i].name.text : i \in DOMAIN db.customers } \cup
                 { db.employees[i].name.text : i \in DOMAIN db.employees }
        sorted == SelectSeq(Collation, LAMBDA t : t \in names)
    IN [i \in DOMAIN sorted |-> [name |-> Text(sorted[i])]]

\* customers joined with their orders, grouped by customer, largest total
\* first, at most five of them
TopCustomers(db) ==
    LET buyers == SelectSeq(db.customers, LAMBDA c : Amounts(db, c) # <<>>)
        totals == [i \in DOMAIN buyers |->
                      [name |-> buyers[i].name, email |-> buyers[i].email,
                       total_spent |-> Real(SumReal(Amounts(db, buyers[i])))]]
        ranked == { p \in Orderings(totals) :
                       \A i, j \in DOMAIN p :
                           i < j => p[i].total_spent.real >= p[j].total_spent.real }
    IN { SubSeq(p, 1, IF Len(p) < 5 THEN Len(p) ELSE 5) : p \in ranked }

\* The row sequences fetchall may return for one SELECT statement, {} when
\* the engine does not answer the statement with rows.
SelectRows(db, stmt) ==
    CASE stmt = "SELECT 1" -> { << [c \in {"1"} |-> Integer(1)] >> }
      [] stmt = "SELECT * FROM customers" -> { db.customers }
      [] stmt = "SELECT * FROM customers WHERE status = 'active'" ->
            { SelectSeq(db.customers, LAMBDA c : c.status = Text("active")) }
      [] stmt = "SELECT COUNT(*) as customer_count FROM customers" ->
            { << [customer_count |-> Integer(Len(db.customers))] >> }
      [] stmt \in { "SELECT * FROM orders", "SELECT * FROM orders -- everything" } ->
            { db.orders }
      [] stmt = "SELECT * FROM orders ORDER BY order_date DESC" ->
            { p \in Orderings(db.orders) :
                 \A i, j \in DOMAIN p :
                     i < j => Rank(p[i].order_date) >= Rank(p[j].order_date) }
      [] stmt = "SELECT COUNT(*) as order_count FROM orders" ->
            { << [order_count |-> Integer(Len(db.orders))] >> }
      [] stmt = "SELECT COUNT(*) FROM orders" ->
            { << [c \in {"COUNT(*)"} |-> Integer(Len(db.orders))] >> }
      [] stmt = "SELECT * FROM products" -> { db.products }
      [] stmt = "SELECT * FROM products WHERE category = 'Electronics'" ->
            { SelectSeq(db.products, LAMBDA r : r.category = Text("Electronics")) }
      [] stmt = "SELECT * FROM employees WHERE status = 'active'" ->
            { SelectSeq(db.employees, LAMBDA r : r.status = Text("active")) }
      [] stmt = "SELECT SUM(total_amount) as total_revenue FROM orders WHERE category = 'Electronics'" ->
            LET sold == SelectSeq(db.orders, LAMBDA o : o.category = Text("Electronics"))
            IN { << [total_revenue |->
                        IF sold = <<>> THEN Null
                        ELSE Real(SumReal([i \in DOMAIN sold |-> sold[i].total_amount]))] >> }
      [] stmt = "SELECT c.name, c.email, SUM(o.total_amount) as total_spent FROM customers c JOIN orders o ON c.id = o.customer_id GROUP BY c.id, c.name, c.email ORDER BY total_spent DESC LIMIT 5" ->
            TopCustomers(db)
      [] stmt = "select name, email from customers where city = 'Pune'" ->
            LET found == SelectSeq(db.customers, LAMBDA c : c.city = Text("Pune"))
            IN { [i \in DOMAIN found |->
                     [name |-> found[i].name, email |-> found[i].email]] }
      [] stmt = "SELECT name FROM customers\nUNION\nSELECT name FROM employees" ->
            { UnionOfNames(db) }
      [] stmt = "SELECT * FROM customers ORDER BY random()" ->
            Orderings(db.customers)
      [] OTHER -> {}

\* Position of the first ';' of a script, 0 when it has none.
FirstSemicolon(sql) ==
    IF Contains(sql, ";")
    THEN CHOOSE i \in 1..Len(sql) :
            /\ CharAt(sql, i) = ";"
            /\ \A j \in 1..(i - 1) : CharAt(sql, j) # ";"
    ELSE 0

\* The first statement of a script, and what follows its ';'.
FirstStatement(sql) ==
    IF FirstSemicolon(sql) = 0 THEN strip(sql)
    ELSE strip(SubSeq(sql, 1, FirstSemicolon(sql) - 1))

RestOfScript(sql) ==
    IF FirstSemicolon(sql) = 0 THEN ""
    ELSE strip(SubSeq(sql, FirstSemicolon(sql) + 1, Len(sql)))

\* Exceptions of the sqlite3 module: its class (sqlite3.Error or another
\* Exception) and its text.
Error(class, text) == [class |-> class, text |-> text]

\* sqlite3.connect cannot open the file.
ConnectError == Error("sqlite3.Error", "unable to open database file")

\* Another process holds the file.
LockedError == Error("sqlite3.Error", "database is locked")

\* cursor.execute is given more than one statement: sqlite3.ProgrammingError
\* (an sqlite3.Error) or, in older versions of the module, sqlite3.Warning
\* (not an sqlite3.Error).
OneStatementErrors ==
    { Error("sqlite3.Error", "You can only execute one statement at a time."),
      Error("Exception", "You can only execute one statement at a time.") }

\* The engine refuses a statement.
StatementError(stmt) ==
    IF stmt = "SELECT * FROM customer"
    THEN Error("sqlite3.Error", "no such table: customer")
    ELSE Error("sqlite3.Error", "syntax error")

\* How a call of the engine ends: rows fetched or an exception raised, and
\* the store it leaves.
Returned(rows, db) == [ok |-> TRUE, rows |-> rows, db |-> db]

Raised(e, db) == [ok |-> FALSE, error |-> e, db |-> db]

\* The engine runs one statement.  A CREATE TABLE takes effect at once (the
\* module opens no transaction for it).
RunStatement(db, stmt) ==
    IF stmt = "CREATE TABLE notes (id)"
    THEN IF "notes" \in db.tables
         THEN { Raised(Error("sqlite3.Error", "table notes already exists"), db) }
         ELSE { Returned(<<>>, [db EXCEPT !.tables = @ \cup {"notes"}]) }
    ELSE IF SelectRows(db, stmt) # {}
    THEN { Returned(rows, db) : rows \in SelectRows(db, stmt) }
    ELSE { Raised(StatementError(stmt), db) }

\* cursor_execute running every statement of the script, as
\* cursor.executescript does.
cursor_executescript(db, sql) ==
    { Raised(LockedError, db) } \cup
    IF RestOfScript(sql) = "" THEN RunStatement(db, FirstStatement(sql))
    ELSE UNION { IF first.ok
                 THEN { [first EXCEPT !.db = second.db] :
                           second \in RunStatement(first.db, FirstStatement(RestOfScript(sql))) }
                 ELSE { first } :
                 first \in RunStatement(db, FirstStatement(sql)) }

\* cursor.execute(sql_query) and cursor.fetchall() on an open connection
cursor_execute(db, sql) ==
    { Raised(LockedError, db) } \cup
    IF RestOfScript(sql) # ""
    THEN { Raised(e, db) : e \in OneStatementErrors }
    ELSE RunStatement(db, FirstStatement(sql))

\* round(value, 2) of a REAL held in thousandths
Round2(milli) == ((milli + 5) \div 10) * 10

\* execute_query (src/app.py): dict(row), with every float rounded
FormatRow(row) ==
    [key \in DOMAIN row |->
        IF DOMAIN row[key] = {"real"} THEN Real(Round2(row[key].real))
        ELSE row[key]]

FormatRows(results) == [i \in DOMAIN results |-> FormatRow(results[i])]

\* How the engine may answer the statement chat() is about to execute.
Outcomes ==
    IF pc = "execute" THEN cursor_execute(database, sql_query[1]) ELSE {}

\* What cursor.fetchall may return to it.
Rows == { o.rows : o \in { x \in Outcomes : x.ok } }

\* What sqlite3.connect, cursor.execute or cursor.fetchall may raise on it.
EngineErrors ==
    IF pc = "execute"
    THEN {ConnectError} \cup { o.error : o \in { x \in Outcomes : ~x.ok } }
    ELSE {}

\* What get_database_schema may raise.
SchemaErrors == { ConnectError, LockedError }

\* Connections left open by an operation that ends in exception e: the
\* conn.close() of get_database_schema and of execute_query is its last
\* statement before the return, so it is skipped by every exception raised
\* after sqlite3.connect.
LeftOpen(e) == IF e = ConnectError THEN 0 ELSE 1

\* A bound on the connections that are open at a time.
MaxConnections == 1

-----------------------------------------------------------------------------
(* The JSON bodies chat() returns *)

NoVerdict == None

\* One entry of the log of component invocations: the component, its
\* argument and how the invocation ended.
Call(op, arg, result) == [op |-> op, arg |-> arg, result |-> result]

RespInvalidJson == [success |-> FALSE, error |-> "Invalid JSON data"]

RespEmptyMessage == [success |-> FALSE, error |-> "Message cannot be empty"]

RespServerError(text) == [success |-> FALSE, error |-> "Server error: " \o text]

\* RespNoQuery without the 'suggestion' entry.
RespNoQuery_NoSuggestion(client) ==
    [success |-> FALSE,
     error |-> "Failed to generate SQL query." \o
               (IF client = "None"
                THEN " Groq client is not initialized - please check your API key."
                ELSE " Please try rephrasing your question.")]

\* chat(), src/app.py: the 'if not sql_query' branch
RespNoQuery(client) ==
    [success |-> FALSE,
     error |-> "Failed to generate SQL query." \o
               (IF client = "None"
                THEN " Groq client is not initialized - please check your API key."
                ELSE " Please try rephrasing your question."),
     suggestion |-> "Try asking: \"Show all customers\" or \"How many orders were placed?\""]

\* chat(), src/main.py: the 'if not sql_query' branch
MainRespNoQuery ==
    [success |-> FALSE,
     error |-> "Failed to generate SQL query. Please try rephrasing your question."]

\* RespFailed reporting the statement in the validator's normalised form.
RespFailed_Normalized(message, sql) ==
    [success |-> FALSE, error |-> message, generated_sql |-> upper(strip(sql))]

\* the 'if not is_valid' and 'if not success' branches
RespFailed(message, sql) ==
    [success |-> FALSE, error |-> message, generated_sql |-> sql]

RespSuccess(sql, results) ==
    [success |-> TRUE,
     message |-> "Found " \o ToString(Len(results)) \o " result(s)",
     generated_sql |-> sql,
     results |-> results,
     result_count |-> Len(results),
     timestamp |-> Timestamp]

MainRespSuccess(sql, results) ==
    [success |-> TRUE,
     message |-> "Found " \o ToString(Len(results)) \o " result(s)",
     generated_sql |-> sql,
     results |-> results,
     timestamp |-> Timestamp]

-----------------------------------------------------------------------------
(* chat(): one request at a time, cut at its calls to the outside (the     *)
(* storage engine and the completion service).                             *)

Finish(resp, status) ==
    /\ response' = resp
    /\ http_status' = status
    /\ pc' = "responded"

Continue(next) ==
    /\ response' = None
    /\ http_status' = 0
    /\ pc' = next

\* data.get('message', '')
GetMessage(d) == IF "message" \in d.keys THEN d.message ELSE Some("")

\* Question without the strip(): surrounding whitespace is kept.
Question_NoStrip(d) == GetMessage(d)[1]

\* data.get('message', '').strip()
Question(d) == strip(GetMessage(d)[1])

\* 'not data' (src/app.py): JSON null or an empty object
NotData(d) == d.kind = "null" \/ d.keys = {}

\* chat() from request.get_json() to the call of
\* generate_sql_from_natural_language
ChatReceive(d) ==
    /\ pc \in {"idle", "responded"}
    /\ data' = d
    /\ sql_query' = None
    /\ source' = "none"
    /\ validation' = NoVerdict
    /\ calls' = <<>>
    /\ IF d.kind = "invalid"
       THEN /\ user_message' = ""
            /\ Finish(RespServerError("400 Bad Request: Failed to decode JSON object"), 500)
       ELSE IF impl = "app" /\ NotData(d)
       THEN user_message' = "" /\ Finish(RespInvalidJson, 400)
       ELSE IF d.kind = "null"
       THEN /\ user_message' = ""
            /\ Finish(RespServerError("'NoneType' object has no attribute 'get'"), 500)
       ELSE IF GetMessage(d) = None
       THEN /\ user_message' = ""
            /\ Finish(RespServerError("'NoneType' object has no attribute 'strip'"), 500)
       ELSE /\ user_message' = Question(d)
            /\ IF user_message' = ""
               THEN Finish(RespEmptyMessage, 400)
               ELSE Continue("generate")
    /\ UNCHANGED <<impl, groq_client>>
    /\ UNCHANGED storageVars
    /\ UNCHANGED harnessVars

\* Recover without the fallback: None whenever the completion path is not
\* available.
Recover_NoFallback(question, log) == << None, "none", log >>

\* What generate_sql_from_natural_language returns when the completion path
\* is not available: the fallback statement (src/app.py), None (src/main.py).
\* The result is <<sql_query, source, calls>>.
Recover(question, log) ==
    IF impl = "app"
    THEN LET sql == generate_fallback_sql(question) IN
         << sql, "fallback",
            Append(log, Call("fallback", question,
                             IF sql = None THEN "None" ELSE "statement")) >>
    ELSE << None, "none", log >>

SetGenerated(result) ==
    /\ sql_query' = result[1]
    /\ source' = result[2]
    /\ calls' = result[3]
    /\ pc' = "generated"
    /\ UNCHANGED <<impl, groq_client, data, user_message, validation,
                   response, http_status>>
    /\ UNCHANGED harnessVars

\* generate_sql_from_natural_language, 'if not groq_client' (src/app.py)
GenerateUnconfigured ==
    /\ pc = "generate"
    /\ groq_client = "None"
    /\ SetGenerated(Recover(user_message, calls))
    /\ UNCHANGED storageVars

\* generate_sql_from_natural_language: get_database_schema() returns
GetSchemaOk ==
    /\ pc = "generate"
    /\ groq_client = "configured"
    /\ calls' = Append(calls, Call("schema", "", "returned"))
    /\ pc' = "complete"
    /\ UNCHANGED <<impl, groq_client, data, user_message, sql_query, source,
                   validation, response, http_status>>
    /\ UNCHANGED storageVars
    /\ UNCHANGED harnessVars

\* generate_sql_from_natural_language: get_database_schema() raises
GetSchemaRaises ==
    /\ pc = "generate"
    /\ groq_client = "configured"
    /\ \E e \in SchemaErrors :
          /\ connections + LeftOpen(e) <= MaxConnections
          /\ connections' = connections + LeftOpen(e)
    /\ SetGenerated(Recover(user_message,
                            Append(calls, Call("schema", "", "raised"))))
    /\ UNCHANGED <<database, executed>>

\* generate_sql_from_natural_language: the completion call returns content
CompletionReturns(raw) ==
    /\ pc = "complete"
    /\ SetGenerated(<< Some(Sanitize(raw)), "model",
                       Append(calls, Call("completion", user_message, "returned")) >>)
    /\ UNCHANGED storageVars

\* CompletionRaises that repeats a completion call that raised, once.
CompletionRaises_Retry ==
    /\ pc = "complete"
    /\ IF \A i \in DOMAIN calls : calls[i].op # "completion"
       THEN /\ calls' = Append(calls, Call("completion", user_message, "raised"))
            /\ UNCHANGED <<impl, groq_client, pc, data, user_message, sql_query,
                           source, validation, response, http_status>>
            /\ UNCHANGED harnessVars
       ELSE SetGenerated(Recover(user_message,
                                 Append(calls, Call("completion", user_message, "raised"))))
    /\ UNCHANGED storageVars

\* generate_sql_from_natural_language: the completion call raises
CompletionRaises ==
    /\ pc = "complete"
    /\ SetGenerated(Recover(user_message,
                            Append(calls, Call("completion", user_message, "raised"))))
    /\ UNCHANGED storageVars

Validate(q) == IF impl = "app" THEN validate_sql_query(q)
               ELSE main_validate_sql_query(q)

\* ChatValidate that answers the rejection of a model candidate by turning
\* to the fallback generator, whose statement is validated next.
ChatValidate_FallbackOnReject ==
    /\ pc = "generated"
    /\ IF Falsy(sql_query)
       THEN /\ Finish(IF impl = "app" THEN RespNoQuery(groq_client)
                      ELSE MainRespNoQuery, 200)
            /\ UNCHANGED <<validation, calls, sql_query, source>>
       ELSE LET v == Validate(sql_query)
                log == Append(calls, Call("validate", sql_query[1],
                                          IF v.valid THEN "accepted" ELSE "rejected"))
            IN IF ~v.valid /\ source = "model"
               THEN /\ sql_query' = generate_fallback_sql(user_message)
                    /\ source' = "fallback"
                    /\ validation' = NoVerdict
                    /\ calls' = Append(log, Call("fallback", user_message,
                                                 IF sql_query' = None THEN "None"
                                                 ELSE "statement"))
                    /\ Continue("generated")
               ELSE /\ validation' = Some(v)
                    /\ calls' = log
                    /\ UNCHANGED <<sql_query, source>>
                    /\ IF ~v.valid
                       THEN Finish(RespFailed(v.message, sql_query[1]), 200)
                       ELSE Continue("execute")
    /\ UNCHANGED <<impl, groq_client, data, user_message>>
    /\ UNCHANGED storageVars
    /\ UNCHANGED harnessVars

\* ChatValidate that answers the rejection of a model candidate by asking
\* the completion service again.
ChatValidate_RetryOnReject ==
    /\ pc = "generated"
    /\ IF Falsy(sql_query)
       THEN /\ Finish(IF impl = "app" THEN RespNoQuery(groq_client)
                      ELSE MainRespNoQuery, 200)
            /\ UNCHANGED <<validation, calls, sql_query, source>>
       ELSE IF ~Validate(sql_query).valid /\ source = "model"
       THEN /\ sql_query' = None
            /\ source' = "none"
            /\ validation' = NoVerdict
            /\ calls' = <<>>
            /\ Continue("generate")
       ELSE /\ validation' = Some(Validate(sql_query))
            /\ calls' = Append(calls, Call("validate", sql_query[1],
                                           IF validation'[1].valid THEN "accepted"
                                           ELSE "rejected"))
            /\ UNCHANGED <<sql_query, source>>
            /\ IF ~validation'[1].valid
               THEN Finish(RespFailed(validation'[1].message, sql_query[1]), 200)
               ELSE Continue("execute")
    /\ UNCHANGED <<impl, groq_client, data, user_message>>
    /\ UNCHANGED storageVars
    /\ UNCHANGED harnessVars

\* ChatValidate without the 'if not is_valid' return: a rejected candidate
\* goes on to execute_query.
ChatValidate_NoGate ==
    /\ pc = "generated"
    /\ IF Falsy(sql_query)
       THEN /\ Finish(IF impl = "app" THEN RespNoQuery(groq_client)
                      ELSE MainRespNoQuery, 200)
            /\ UNCHANGED <<validation, calls>>
       ELSE /\ validation' = Some(Validate(sql_query))
            /\ calls' = Append(calls, Call("validate", sql_query[1],
                                           IF validation'[1].valid THEN "accepted"
                                           ELSE "rejected"))
            /\ Continue("execute")
    /\ UNCHANGED <<impl, groq_client, data, user_message, sql_query, source>>
    /\ UNCHANGED storageVars
    /\ UNCHANGED harnessVars

\* ChatValidate in which the trimmed, uppercased text the validator works
\* on replaces the candidate once it is accepted.
ChatValidate_Normalizing ==
    /\ pc = "generated"
    /\ IF Falsy(sql_query)
       THEN /\ Finish(IF impl = "app" THEN RespNoQuery(groq_client)
                      ELSE MainRespNoQuery, 200)
            /\ UNCHANGED <<validation, calls, sql_query>>
       ELSE /\ validation' = Some(Validate(sql_query))
            /\ calls' = Append(calls, Call("validate", sql_query[1],
                                           IF validation'[1].valid THEN "accepted"
                                           ELSE "rejected"))
            /\ IF ~validation'[1].valid
               THEN /\ Finish(RespFailed(validation'[1].message, sql_query[1]), 200)
                    /\ UNCHANGED sql_query
               ELSE /\ Continue("execute")
                    /\ sql_query' = Some(upper(strip(sql_query[1])))
    /\ UNCHANGED <<impl, groq_client, data, user_message, source>>
    /\ UNCHANGED storageVars
    /\ UNCHANGED harnessVars

\* chat() from the return of generate_sql_from_natural_language to the call
\* of execute_query
ChatValidate ==
    /\ pc = "generated"
    /\ IF Falsy(sql_query)
       THEN /\ Finish(IF impl = "app" THEN RespNoQuery(groq_client)
                      ELSE MainRespNoQuery, 200)
            /\ UNCHANGED <<validation, calls>>
       ELSE /\ validation' = Some(Validate(sql_query))
            /\ calls' = Append(calls, Call("validate", sql_query[1],
                                           IF validation'[1].valid THEN "accepted"
                                           ELSE "rejected"))
            /\ IF ~validation'[1].valid
               THEN Finish(RespFailed(validation'[1].message, sql_query[1]), 200)
               ELSE Continue("execute")
    /\ UNCHANGED <<impl, groq_client, data, user_message, sql_query, source>>
    /\ UNCHANGED storageVars
    /\ UNCHANGED harnessVars

\* ExecuteError with a fixed message in place of the engine's.
ExecuteError_Generic(e) == "Database error: the query could not be executed"

\* execute_query's (False, message) for a raised exception
ExecuteError(e) ==
    IF impl = "app" /\ e.class # "sqlite3.Error"
    THEN "Unexpected error: " \o e.text
    ELSE "Database error: " \o e.text

\* chat(): execute_query returns rows; its connection is closed, nothing
\* is committed by it.
ChatExecuteOk(rows) ==
    /\ pc = "execute"
    /\ \E o \in Outcomes :
          /\ o.ok
          /\ o.rows = rows
          /\ database' = o.db
    /\ executed' = Some([sql |-> sql_query[1], rows |-> rows, db |-> database])
    /\ calls' = Append(calls, Call("execute", sql_query[1], "returned"))
    /\ Finish(IF impl = "app" THEN RespSuccess(sql_query[1], FormatRows(rows))
              ELSE MainRespSuccess(sql_query[1], rows), 200)
    /\ UNCHANGED <<impl, groq_client, data, user_message, sql_query, source,
                   validation, connections>>
    /\ UNCHANGED harnessVars

\* chat(): sqlite3.connect or the storage engine raises inside execute_query
ChatExecuteFails(e) ==
    /\ pc = "execute"
    /\ e \in EngineErrors
    /\ IF e = ConnectError THEN database' = database
       ELSE \E o \in Outcomes :
               /\ ~o.ok
               /\ o.error = e
               /\ database' = o.db
    /\ connections + LeftOpen(e) <= MaxConnections
    /\ connections' = connections + LeftOpen(e)
    /\ calls' = Append(calls, Call("execute", sql_query[1], "raised"))
    /\ Finish(RespFailed(ExecuteError(e), sql_query[1]), 200)
    /\ UNCHANGED <<impl, groq_client, data, user_message, sql_query, source,
                   validation, executed>>
    /\ UNCHANGED harnessVars

\* The interpreter finalizes a connection object nothing refers to any
\* more, which closes the connection.
Finalize ==
    /\ connections > 0
    /\ connections' = connections - 1
    /\ UNCHANGED <<impl, groq_client, pc, data, user_message, sql_query, source,
                   validation, response, http_status, calls, database, executed>>
    /\ UNCHANGED harnessVars

\* Requests served at the same time, each by a thread of its own.
MaxThreads == 2

Threads == 1..MaxThreads

\* The locals of chat() in a thread that has not received its request, and
\* (ghost) what the outside did for the request: how get_database_schema,
\* the completion call and execute_query ended, the content and the rows
\* they returned, the exception raised in execute_query.
NotStarted ==
    [pc |-> "idle", data |-> [kind |-> "null", message |-> None, keys |-> {}],
     user_message |-> "", sql_query |-> None,
     source |-> "none", validation |-> None, response |-> None,
     http_status |-> 0,
     schema |-> "none", completion |-> "none", raw |-> "",
     engine |-> "none", rows |-> <<>>, error |-> [class |-> "", text |-> ""]]

\* The module globals after import: src/app.py leaves groq_client None when
\* GROQ_API_KEY is missing; src/main.py always constructs the client.
Init ==
    /\ impl \in {"app", "main"}
    /\ groq_client \in (IF impl = "app" THEN {"configured", "None"}
                        ELSE {"configured"})
    /\ pc = "idle"
    /\ data = Body("null", {}, None)
    /\ user_message = ""
    /\ sql_query = None
    /\ source = "none"
    /\ validation = NoVerdict
    /\ response = None
    /\ http_status = 0
    /\ calls = <<>>
    /\ database = SampleDatabase
    /\ connections = 0
    /\ executed = None
    /\ query = ""
    /\ verdict = NoVerdict
    /\ main_verdict = NoVerdict
    /\ nparts = 0
    /\ fallback_question = ""
    /\ fallback_results = <<>>
    /\ content = ""
    /\ candidate = None
    /\ threads = [t \in Threads |-> NotStarted]

Next ==
    \/ \E d \in Bodies : ChatReceive(d)
    \/ GenerateUnconfigured
    \/ GetSchemaOk
    \/ GetSchemaRaises
    \/ \E raw \in RawResponses : CompletionReturns(raw)
    \/ CompletionRaises
    \/ ChatValidate
    \/ \E rows \in Rows : ChatExecuteOk(rows)
    \/ \E e \in EngineErrors : ChatExecuteFails(e)
    \/ Finalize

Spec == Init /\ [][Next]_vars

\* The steps of a request that has been received: each call chat() makes
\* returns or raises, and chat() itself runs on.
RequestStep ==
    \/ GenerateUnconfigured
    \/ GetSchemaOk
    \/ GetSchemaRaises
    \/ \E raw \in RawResponses : CompletionReturns(raw)
    \/ CompletionRaises
    \/ ChatValidate
    \/ \E rows \in Rows : ChatExecuteOk(rows)
    \/ \E e \in EngineErrors : ChatExecuteFails(e)

SpecLive == Spec /\ WF_vars(RequestStep)

-----------------------------------------------------------------------------
(* chat() served by several threads at a time (Flask serves each request   *)
(* in a thread of its own): every thread runs the steps of one request on  *)
(* its own locals; the module global groq_client and the store are shared. *)

requestVars == <<pc, data, user_message, sql_query, source, validation,
                 response, http_status, calls, executed>>

pureVars == <<validatorVars, nparts, fallbackVars, cleanupVars>>

\* The request bodies and the completion contents of the concurrent runs.
ThreadBodies ==
    { Body("dict", {"message"}, Some(q)) :
        q \in { "Show all customers", "What is the weather today?" } }

ThreadResponses == { "SELECT COUNT(*) FROM orders", "DELETE FROM customers" }

SetThread(t, local) ==
    /\ threads' = [threads EXCEPT ![t] = local]
    /\ UNCHANGED requestVars
    /\ UNCHANGED pureVars

Answered(local, resp, status) ==
    [local EXCEPT !.response = resp, !.http_status = status, !.pc = "responded"]

Generated(local, result) ==
    [local EXCEPT !.sql_query = result[1], !.source = result[2], !.pc = "generated"]

\* chat() from request.get_json() to the call of
\* generate_sql_from_natural_language
ThreadReceive(t, d) ==
    /\ threads[t].pc = "idle"
    /\ LET local == [threads[t] EXCEPT !.data = d] IN
       SetThread(t,
          IF d.kind = "invalid"
          THEN Answered(local, RespServerError("400 Bad Request: Failed to decode JSON object"), 500)
          ELSE IF impl = "app" /\ NotData(d)
          THEN Answered(local, RespInvalidJson, 400)
          ELSE IF d.kind = "null"
          THEN Answered(local, RespServerError("'NoneType' object has no attribute 'get'"), 500)
          ELSE IF GetMessage(d) = None
          THEN Answered(local, RespServerError("'NoneType' object has no attribute 'strip'"), 500)
          ELSE IF Question(d) = ""
          THEN Answered(local, RespEmptyMessage, 400)
          ELSE [local EXCEPT !.user_message = Question(d), !.pc = "generate"])
    /\ UNCHANGED <<impl, groq_client, database, connections>>

\* generate_sql_from_natural_language, 'if not groq_client' (src/app.py)
ThreadGenerateUnconfigured(t) ==
    /\ threads[t].pc = "generate"
    /\ groq_client = "None"
    /\ SetThread(t, Generated(threads[t], Recover(threads[t].user_message, <<>>)))
    /\ UNCHANGED <<impl, groq_client, database, connections>>

\* generate_sql_from_natural_language: get_database_schema() returns
ThreadGetSchemaOk(t) ==
    /\ threads[t].pc = "generate"
    /\ groq_client = "configured"
    /\ SetThread(t, [threads[t] EXCEPT !.schema = "returned", !.pc = "complete"])
    /\ UNCHANGED <<impl, groq_client, database, connections>>

\* generate_sql_from_natural_language: get_database_schema() raises
ThreadGetSchemaRaises(t, e) ==
    /\ threads[t].pc = "generate"
    /\ groq_client = "configured"
    /\ connections + LeftOpen(e) <= MaxConnections
    /\ connections' = connections + LeftOpen(e)
    /\ SetThread(t, Generated([threads[t] EXCEPT !.schema = "raised"],
                              Recover(threads[t].user_message, <<>>)))
    /\ UNCHANGED <<impl, groq_client, database>>

\* generate_sql_from_natural_language: the completion call returns content
ThreadCompletionReturns(t, raw) ==
    /\ threads[t].pc = "complete"
    /\ SetThread(t, Generated([threads[t] EXCEPT !.completion = "returned", !.raw = raw],
                              << Some(Sanitize(raw)), "model", <<>> >>))
    /\ UNCHANGED <<impl, groq_client, database, connections>>

\* ThreadCompletionRaises that gives the client up for the requests to
\* come: the module global is set to None.
ThreadCompletionRaises_DropClient(t) ==
    /\ threads[t].pc = "complete"
    /\ SetThread(t, Generated([threads[t] EXCEPT !.completion = "raised"],
                              Recover(threads[t].user_message, <<>>)))
    /\ groq_client' = "None"
    /\ UNCHANGED <<impl, database, connections>>

\* generate_sql_from_natural_language: the completion call raises
ThreadCompletionRaises(t) ==
    /\ threads[t].pc = "complete"
    /\ SetThread(t, Generated([threads[t] EXCEPT !.completion = "raised"],
                              Recover(threads[t].user_message, <<>>)))
    /\ UNCHANGED <<impl, groq_client, database, connections>>

\* chat() from the return of generate_sql_from_natural_language to the call
\* of execute_query
ThreadValidate(t) ==
    /\ threads[t].pc = "generated"
    /\ SetThread(t,
          IF Falsy(threads[t].sql_query)
          THEN Answered(threads[t], IF impl = "app" THEN RespNoQuery(groq_client)
                                    ELSE MainRespNoQuery, 200)
          ELSE LET v == Validate(threads[t].sql_query)
                   local == [threads[t] EXCEPT !.validation = Some(v)]
               IN IF ~v.valid
                  THEN Answered(local, RespFailed(v.message, local.sql_query[1]), 200)
                  ELSE [local EXCEPT !.pc = "execute"])
    /\ UNCHANGED <<impl, groq_client, database, connections>>

\* chat(): execute_query returns rows
ThreadExecuteOk(t) ==
    /\ threads[t].pc = "execute"
    /\ \E o \in cursor_execute(database, threads[t].sql_query[1]) :
          /\ o.ok
          /\ database' = o.db
          /\ LET sql == threads[t].sql_query[1]
                 local == [threads[t] EXCEPT !.engine = "returned", !.rows = o.rows]
             IN SetThread(t, Answered(local,
                                IF impl = "app" THEN RespSuccess(sql, FormatRows(o.rows))
                                ELSE MainRespSuccess(sql, o.rows), 200))
    /\ UNCHANGED <<impl, groq_client, connections>>

\* What sqlite3.connect, cursor.execute or cursor.fetchall may raise to a
\* thread.
ThreadErrors(t) ==
    {ConnectError} \cup
    { o.error : o \in { x \in cursor_execute(database, threads[t].sql_query[1]) : ~x.ok } }

\* chat(): sqlite3.connect or the storage engine raises inside execute_query
ThreadExecuteFails(t) ==
    /\ threads[t].pc = "execute"
    /\ \E e \in ThreadErrors(t) :
          /\ IF e = ConnectError THEN database' = database
             ELSE \E o \in cursor_execute(database, threads[t].sql_query[1]) :
                     /\ ~o.ok
                     /\ o.error = e
                     /\ database' = o.db
          /\ connections + LeftOpen(e) <= MaxConnections
          /\ connections' = connections + LeftOpen(e)
          /\ LET local == [threads[t] EXCEPT !.engine = "raised", !.error = e]
             IN SetThread(t, Answered(local,
                                      RespFailed(ExecuteError(e), local.sql_query[1]), 200))
    /\ UNCHANGED <<impl, groq_client>>

NextThreads ==
    \/ \E t \in Threads, d \in ThreadBodies : ThreadReceive(t, d)
    \/ \E t \in Threads : ThreadGenerateUnconfigured(t)
    \/ \E t \in Threads : ThreadGetSchemaOk(t)
    \/ \E t \in Threads, e \in SchemaErrors : ThreadGetSchemaRaises(t, e)
    \/ \E t \in Threads, raw \in ThreadResponses : ThreadCompletionReturns(t, raw)
    \/ \E t \in Threads : ThreadCompletionRaises(t)
    \/ \E t \in Threads : ThreadValidate(t)
    \/ \E t \in Threads : ThreadExecuteOk(t)
    \/ \E t \in Threads : ThreadExecuteFails(t)
    \/ Finalize

SpecThreads == Init /\ [][NextThreads]_vars

-----------------------------------------------------------------------------
(* The validators as pure functions: a candidate statement is a head       *)
(* followed by up to MaxFragments fragments, then validate_sql_query is    *)
(* applied to it.                                                          *)

MaxFragments == 3

StatementHeads == { "", "SELECT ", "SELECTED", " select\t", "DROP " }

Fragments ==
    { " ", "\n", "\t", "DROP", ";", "--", "/*", "*/",
      "UNION", "SELECT", "OR", "AND", "1 =\n1" }

InitValidator ==
    /\ impl = "app"
    /\ groq_client = "None"
    /\ pc = "idle"
    /\ data = Body("null", {}, None)
    /\ user_message = ""
    /\ sql_query = None
    /\ source = "none"
    /\ validation = NoVerdict
    /\ response = None
    /\ http_status = 0
    /\ calls = <<>>
    /\ database = SampleDatabase
    /\ connections = 0
    /\ executed = None
    /\ query \in StatementHeads
    /\ verdict = NoVerdict
    /\ main_verdict = NoVerdict
    /\ nparts = 0
    /\ fallback_question = ""
    /\ fallback_results = <<>>
    /\ content = ""
    /\ candidate = None
    /\ threads = [t \in Threads |-> NotStarted]

\* The candidate grows by one fragment.
Compose(f) ==
    /\ verdict = NoVerdict
    /\ nparts < MaxFragments
    /\ query' = query \o f
    /\ nparts' = nparts + 1
    /\ UNCHANGED <<verdict, main_verdict>>
    /\ UNCHANGED <<fallbackVars, cleanupVars>>
    /\ UNCHANGED <<chatVars, threadVars>>

\* chatbot.validate_sql_query(query), of src/app.py and of src/main.py
ApplyValidator ==
    /\ verdict = NoVerdict
    /\ verdict' = Some(validate_sql_query(Some(query)))
    /\ main_verdict' = Some(main_validate_sql_query(Some(query)))
    /\ UNCHANGED <<query, nparts>>
    /\ UNCHANGED <<fallbackVars, cleanupVars>>
    /\ UNCHANGED <<chatVars, threadVars>>

NextValidator ==
    \/ \E f \in Fragments : Compose(f)
    \/ ApplyValidator

SpecValidator == InitValidator /\ [][NextValidator]_vars

-----------------------------------------------------------------------------
(* generate_fallback_sql as a pure function: a question is a head followed *)
(* by up to MaxPhrases phrases; the function is then invoked on it up to   *)
(* MaxInvocations times.                                                   *)

MaxPhrases == 2

MaxInvocations == 2

QuestionHeads == { "", "Please" }

Phrases ==
    { " Show Customers", " how many customers", " list orders", " count orders",
      " all products", " list employees", " revenue", " Electronics", " top",
      " customers", " active", " inactive" }

InitFallback ==
    /\ impl = "app"
    /\ groq_client = "None"
    /\ pc = "idle"
    /\ data = Body("null", {}, None)
    /\ user_message = ""
    /\ sql_query = None
    /\ source = "none"
    /\ validation = NoVerdict
    /\ response = None
    /\ http_status = 0
    /\ calls = <<>>
    /\ database = SampleDatabase
    /\ connections = 0
    /\ executed = None
    /\ query = ""
    /\ verdict = NoVerdict
    /\ main_verdict = NoVerdict
    /\ nparts = 0
    /\ fallback_question \in QuestionHeads
    /\ fallback_results = <<>>
    /\ content = ""
    /\ candidate = None
    /\ threads = [t \in Threads |-> NotStarted]

\* The question grows by one phrase.
AddPhrase(p) ==
    /\ fallback_results = <<>>
    /\ nparts < MaxPhrases
    /\ fallback_question' = fallback_question \o p
    /\ nparts' = nparts + 1
    /\ UNCHANGED fallback_results
    /\ UNCHANGED <<validatorVars, cleanupVars>>
    /\ UNCHANGED <<chatVars, threadVars>>

\* chatbot.generate_fallback_sql(fallback_question)
InvokeFallback ==
    /\ Len(fallback_results) < MaxInvocations
    /\ fallback_results' = Append(fallback_results,
                                  generate_fallback_sql(fallback_question))
    /\ UNCHANGED <<fallback_question, nparts>>
    /\ UNCHANGED <<validatorVars, cleanupVars>>
    /\ UNCHANGED <<chatVars, threadVars>>

NextFallback ==
    \/ \E p \in Phrases : AddPhrase(p)
    \/ InvokeFallback

SpecFallback == InitFallback /\ [][NextFallback]_vars

-----------------------------------------------------------------------------
(* The response clean-up as a pure function: the content of a completion   *)
(* is a head followed by up to MaxPieces pieces; the clean-up of           *)
(* generate_sql_from_natural_language is then applied to it.               *)

MaxPieces == 3

ContentHeads == { "", " ", Fence \o "\n", Fence \o "sql\n" }

Pieces == { Fence, "sql", "SQL", "\n", " ", "SELECT 1" }

InitCleanup ==
    /\ impl = "app"
    /\ groq_client = "configured"
    /\ pc = "idle"
    /\ data = Body("null", {}, None)
    /\ user_message = ""
    /\ sql_query = None
    /\ source = "none"
    /\ validation = NoVerdict
    /\ response = None
    /\ http_status = 0
    /\ calls = <<>>
    /\ database = SampleDatabase
    /\ connections = 0
    /\ executed = None
    /\ query = ""
    /\ verdict = NoVerdict
    /\ main_verdict = NoVerdict
    /\ nparts = 0
    /\ fallback_question = ""
    /\ fallback_results = <<>>
    /\ content \in ContentHeads
    /\ candidate = None
    /\ threads = [t \in Threads |-> NotStarted]

\* The content grows by one piece.
AddPiece(p) ==
    /\ candidate = None
    /\ nparts < MaxPieces
    /\ content' = content \o p
    /\ nparts' = nparts + 1
    /\ UNCHANGED candidate
    /\ UNCHANGED <<validatorVars, fallbackVars>>
    /\ UNCHANGED <<chatVars, threadVars>>

\* sql_query = content.strip(), the two re.sub calls, sql_query.strip()
CleanUp ==
    /\ candidate = None
    /\ candidate' = Some(Sanitize(content))
    /\ UNCHANGED <<content, nparts>>
    /\ UNCHANGED <<validatorVars, fallbackVars>>
    /\ UNCHANGED <<chatVars, threadVars>>

NextCleanup ==
    \/ \E p \in Pieces : AddPiece(p)
    \/ CleanUp

SpecCleanup == InitCleanup /\ [][NextCleanup]_vars

-----------------------------------------------------------------------------
(* Properties of the /chat pipeline (checked under Spec) *)

CallsOf(op) == {i \in DOMAIN calls : calls[i].op = op}

Rejected == validation # NoVerdict /\ ~validation[1].valid

\* C1: execute_query is called only with a statement for which
\* validate_sql_query returned an accepting verdict earlier in the same
\* request, whether the statement came from the model or from the fallback.
C1_ExecuteOnlyAccepted ==
    /\ \A i \in CallsOf("execute") :
          /\ \E j \in 1..(i - 1) :
                /\ calls[j].op = "validate"
                /\ calls[j].arg = calls[i].arg
                /\ calls[j].result = "accepted"
          /\ Validate(Some(calls[i].arg)).valid
    /\ pc = "execute" =>
          /\ validation # NoVerdict
          /\ validation[1].valid
          /\ calls[Len(calls)] = Call("validate", sql_query[1], "accepted")

\* A request whose model-generated statement was executed.
C1_Witness ==
    /\ pc = "responded"
    /\ source = "model"
    /\ CallsOf("execute") # {}

\* The candidate returned by the completion service was rejected.
ModelCandidateRejected ==
    \E i \in CallsOf("validate") :
        /\ calls[i].result = "rejected"
        /\ i > 1
        /\ calls[i - 1].op = "completion"
        /\ calls[i - 1].result = "returned"

AdapterDown ==
    \/ groq_client = "None"
    \/ \E i \in CallsOf("completion") : calls[i].result = "raised"

\* generate_sql_from_natural_language has returned in this request.
GenerationReturned ==
    \/ pc \in {"generated", "execute"}
    \/ pc = "responded" /\ calls # <<>>

\* C6: with the completion client unconfigured or the completion call
\* raising, generate_sql_from_natural_language (src/app.py) returns exactly
\* generate_fallback_sql(question); the request is not failed for that
\* reason, and a fallback candidate goes on to validation.
C6_AdapterDownFallsBack ==
    (impl = "app" /\ AdapterDown /\ GenerationReturned) =>
        /\ sql_query = generate_fallback_sql(user_message)
        /\ source = "fallback"
        /\ http_status # 500
        /\ (sql_query # None /\ pc \in {"execute", "responded"}) =>
              \E v \in CallsOf("validate") : calls[v].arg = sql_query[1]

\* The completion call raised and the fallback statement was executed.
C6_Witness ==
    /\ impl = "app"
    /\ pc = "responded"
    /\ \E i \in CallsOf("completion") : calls[i].result = "raised"
    /\ sql_query # None
    /\ response.success

\* C7: every outcome of chat (src/app.py) that carries a generated statement
\* also carries a provenance tag equal to the path (model or fallback) that
\* produced the statement.
C7_ProvenanceCarried ==
    (impl = "app" /\ pc = "responded" /\ "generated_sql" \in DOMAIN response) =>
        /\ "provenance" \in DOMAIN response
        /\ response.provenance = source

\* The request body holds an empty or whitespace-only 'message'.
EmptyQuestion(d) ==
    /\ "message" \in d.keys
    /\ d.message # None
    /\ strip(d.message[1]) = ""

\* C8: a request whose question is empty or whitespace-only ends with the
\* empty-input failure, and no component (schema introspection, completion
\* adapter, fallback generator, validator, executor) is invoked in it.
C8_EmptyQuestionFails ==
    EmptyQuestion(data) =>
        /\ pc = "responded"
        /\ response = RespEmptyMessage
        /\ http_status = 400
        /\ calls = <<>>
        /\ sql_query = None

\* A whitespace-only question was answered.
C8_Witness ==
    /\ EmptyQuestion(data)
    /\ data.message[1] # ""
    /\ pc = "responded"

\* C9: with the adapter unavailable or failing and no fallback trigger
\* matching the question, the request (src/app.py) ends with the 'failed to
\* generate' failure, which carries a suggestion, and neither the validator
\* nor the executor is invoked.
C9_NoFallbackMatchFails ==
    (/\ impl = "app"
     /\ pc = "responded"
     /\ GenerationReturned
     /\ AdapterDown
     /\ generate_fallback_sql(user_message) = None)
    => /\ response.success = FALSE
       /\ startswith(response.error, "Failed to generate SQL query.")
       /\ "suggestion" \in DOMAIN response
       /\ Contains(response.suggestion, "Try asking")
       /\ "generated_sql" \notin DOMAIN response
       /\ CallsOf("validate") = {}
       /\ CallsOf("execute") = {}

\* The completion call raised and the fallback generator had no match.
C9_Witness ==
    /\ impl = "app"
    /\ pc = "responded"
    /\ \E i \in CallsOf("completion") : calls[i].result = "raised"
    /\ \E f \in CallsOf("fallback") : calls[f].result = "None"

\* C10: whenever the validator rejects a candidate, the request ends in a
\* failure that carries the validator's reason verbatim and the rejected
\* text unchanged; the executor is not called and nothing is generated or
\* validated afterwards.
C10_RejectionSurfaced ==
    Rejected =>
        /\ pc = "responded"
        /\ response.success = FALSE
        /\ response.error = Validate(sql_query).message
        /\ response.generated_sql = sql_query[1]
        /\ calls[Len(calls)] = Call("validate", sql_query[1], "rejected")
        /\ Cardinality(CallsOf("validate")) = 1
        /\ CallsOf("execute") = {}

\* The model's statement with a trailing DROP was rejected.
C10_Witness ==
    /\ Rejected
    /\ pc = "responded"
    /\ validation[1].message = MsgForbidden("DROP")

\* A request has been received and not answered yet.
InFlight == pc \in {"generate", "complete", "generated", "execute"}

\* How far a request has come.
Stage(position) ==
    CASE position = "idle" -> 0
      [] position = "generate" -> 1
      [] position = "complete" -> 2
      [] position = "generated" -> 3
      [] position = "execute" -> 4
      [] position = "responded" -> 5

\* C13: provided every external call returns or raises, every request that
\* is received is eventually answered; it is answered once (an answer stays
\* as it is until the next request is received, and a request in flight has
\* none), and no step of a request leads back to an earlier stage.
C13_RequestTerminates ==
    /\ InFlight ~> (pc = "responded")
    /\ [](InFlight => response = None)
    /\ [](pc = "responded" => response # None /\ "success" \in DOMAIN response)
    /\ [][InFlight => (Stage(pc') > Stage(pc) \/ pc' = pc)]_vars
    /\ [][(pc = "responded" /\ response' # response) =>
             (data' \in Bodies /\ calls' = <<>>)]_vars

\* A request went through schema introspection, completion, validation and
\* execution and was answered.
C13_Witness ==
    /\ pc = "responded"
    /\ Len(calls) = 4
    /\ response # None

\* With the adapter unavailable, the request for question (src/app.py) is
\* answered from statement: the fallback generator returned it, the validator
\* accepted it, it was passed to execute_query and the response carries it.
FallbackScenario(question, statement) ==
    (/\ impl = "app"
     /\ AdapterDown
     /\ user_message = question
     /\ pc = "responded")
    => /\ sql_query = Some(statement)
       /\ source = "fallback"
       /\ validation = Some(Verdict(TRUE, MsgPassed))
       /\ calls[Len(calls)].op = "execute"
       /\ calls[Len(calls)].arg = statement
       /\ response.generated_sql = statement

\* The outcome of the request for question names the fallback generator as
\* the origin of its statement.
FallbackProvenance(question) ==
    (/\ impl = "app"
     /\ AdapterDown
     /\ user_message = question
     /\ pc = "responded")
    => /\ "provenance" \in DOMAIN response
       /\ response.provenance = "fallback"

\* C12: with the adapter unavailable, "Show all customers" is answered from
\* exactly SELECT * FROM customers and "How many orders were placed?" from
\* exactly SELECT COUNT(*) as order_count FROM orders: each statement is
\* accepted by the validator and passed to the executor, and the outcome
\* carries it with provenance fallback.
C12_FallbackScenarios ==
    /\ FallbackScenario("Show all customers", "SELECT * FROM customers")
    /\ FallbackProvenance("Show all customers")
    /\ FallbackScenario("How many orders were placed?",
                        "SELECT COUNT(*) as order_count FROM orders")
    /\ FallbackProvenance("How many orders were placed?")

\* The messages of the exceptions the storage engine raises.
EngineMessages ==
    { ConnectError.text, LockedError.text, StatementError("SELECT * FROM customer").text,
      StatementError("").text, "table notes already exists" }
    \cup { e.text : e \in OneStatementErrors }

\* C14: an exception of the storage engine during the execution of an
\* accepted statement does not leave execute_query: the request is answered
\* (status 200, not the handler's 500) with a failure that carries the
\* engine's message and the statement text; execute_query is called once.
C14_ExecuteErrorReported ==
    \A i \in CallsOf("execute") :
        calls[i].result = "raised" =>
            /\ i = Len(calls)
            /\ Cardinality(CallsOf("execute")) = 1
            /\ calls[i - 1] = Call("validate", calls[i].arg, "accepted")
            /\ pc = "responded"
            /\ http_status = 200
            /\ response.success = FALSE
            /\ response.generated_sql = calls[i].arg
            /\ \E text \in EngineMessages :
                  response.error \in { "Database error: " \o text,
                                       "Unexpected error: " \o text }

\* The engine refused a statement that names an unknown table.
C14_Witness ==
    /\ pc = "responded"
    /\ calls # <<>>
    /\ calls[Len(calls)] = Call("execute", "SELECT * FROM customer", "raised")
    /\ response.error = "Database error: no such table: customer"

\* get_database_schema raised in this request.
SchemaFailed == \E i \in CallsOf("schema") : calls[i].result = "raised"

\* C15: when schema introspection fails in a request (src/app.py), the
\* request ends with a storage-access failure: introspection is not retried,
\* no candidate statement is produced and nothing is validated or executed
\* afterwards.
C15_SchemaFailureFatal ==
    (impl = "app" /\ SchemaFailed) =>
        /\ Cardinality(CallsOf("schema")) = 1
        /\ sql_query = None
        /\ CallsOf("fallback") = {}
        /\ CallsOf("validate") = {}
        /\ CallsOf("execute") = {}
        /\ pc = "responded"
        /\ response.success = FALSE
        /\ startswith(response.error, "Database error: ")

\* C16: a connection that get_database_schema or execute_query opened is
\* closed when the operation returns, on the success path and on every error
\* path: between the operations of a request, and after any sequence of
\* requests, no connection is open.
C16_ConnectionsClosed == connections = 0

\* The statement that execute_query answered last is about to be executed
\* again, on the same stored data.
ExecutedAgain ==
    /\ pc = "execute"
    /\ executed # None
    /\ executed[1].sql = sql_query[1]
    /\ executed[1].db = database

\* The statement calls an SQL function whose value is not determined by the
\* stored data.
Volatile(sql) == Contains(lower(sql), "random()")

\* C17: requests leave the stored schema and data as init_database left
\* them, and a statement that is executed again on the same data returns the
\* records it returned before, in the same order.
C17_ReadOnlyRepeatable ==
    /\ database = SampleDatabase
    /\ ExecutedAgain => Rows \subseteq { executed[1].rows }

\* C17 as amended: requests leave the stored schema and data as
\* init_database left them; a statement that is executed again on the same
\* data returns the records it returned before, in the same order, unless it
\* calls a volatile SQL function such as random().
C17_ReadOnlyRepeatableUnlessVolatile ==
    /\ database = SampleDatabase
    /\ (ExecutedAgain /\ ~Volatile(sql_query[1])) =>
          Rows \subseteq { executed[1].rows }

\* A statement that returned several records is about to be executed again
\* and can only return the same records.
C17_Witness ==
    /\ ExecutedAgain
    /\ ~Volatile(sql_query[1])
    /\ Len(executed[1].rows) > 1
    /\ Rows = { executed[1].rows }

\* The completion call of the request returned and nothing is left of the
\* content once it is cleaned up.
EmptyCandidate ==
    /\ impl = "app"
    /\ pc = "responded"
    /\ source = "model"
    /\ sql_query = Some("")

\* The outcome of a request for which the fallback generator, called with
\* the client configured, matched no trigger.
NoMatchOutcome == RespNoQuery("configured")

\* C19: a request whose completion call returns a candidate that is empty
\* once cleaned up is handed to the fallback generator and then to the
\* validator, and its outcome differs from the outcome of a request for
\* which the fallback generator matched no trigger.
C19_EmptyCandidateFallsBack ==
    EmptyCandidate =>
        /\ CallsOf("fallback") # {}
        /\ generate_fallback_sql(user_message) # None => CallsOf("validate") # {}
        /\ response # NoMatchOutcome

\* The candidates generate_sql_from_natural_language can hand to chat() for
\* the question of the request.
Candidates ==
    { Sanitize(raw) : raw \in RawResponses }
    \cup (IF generate_fallback_sql(user_message) = None THEN {}
          ELSE { generate_fallback_sql(user_message)[1] })

\* C21: validation leaves the candidate as it is: the statement given to
\* validate_sql_query is the statement generation returned, the statement
\* given to execute_query is that same text, and so are the statement the
\* request holds afterwards and the one returned in the response; the
\* trimmed, uppercased text of the checks appears in none of them.
C21_CandidateUnaltered ==
    /\ \A i \in CallsOf("validate") :
          /\ calls[i].arg \in Candidates
          /\ sql_query = Some(calls[i].arg)
          /\ (pc = "responded" /\ "generated_sql" \in DOMAIN response)
             => response.generated_sql = calls[i].arg
    /\ \A i \in CallsOf("execute") :
          /\ i > 1
          /\ calls[i - 1].op = "validate"
          /\ calls[i].arg = calls[i - 1].arg
          /\ calls[i].result = "returned" => executed[1].sql = calls[i - 1].arg

\* An accepted statement that differs from its uppercased form was executed
\* and returned in the response.
C21_Witness ==
    /\ pc = "responded"
    /\ response.success
    /\ CallsOf("execute") # {}
    /\ sql_query[1] # upper(strip(sql_query[1]))
    /\ response.generated_sql = sql_query[1]

\* The components a request can call.
Components == {"schema", "completion", "fallback", "validate", "execute"}

\* C22: in one request every component is called at most once (schema
\* introspection, completion, fallback generator, validator, executor); a
\* rejecting verdict is the last call of its request, which is answered
\* with it: no validation and no execution follows.
C22_EachComponentOnce ==
    /\ \A op \in Components : Cardinality(CallsOf(op)) <= 1
    /\ \A i \in CallsOf("validate") :
          calls[i].result = "rejected" =>
              /\ i = Len(calls)
              /\ pc = "responded"
              /\ validation = Some(Validate(Some(calls[i].arg)))
              /\ ~response.success

\* A request in which the completion call raised and the fallback
\* statement was validated and executed: four components, each called once.
C22_Witness ==
    /\ pc = "responded"
    /\ \A op \in Components : Cardinality(CallsOf(op)) = 1
    /\ \E i \in CallsOf("completion") : calls[i].result = "raised"

-----------------------------------------------------------------------------
(* Properties of concurrent requests (checked under SpecThreads) *)

\* What generate_sql_from_natural_language returns to a request served
\* alone, the outside behaving as in env.
generated_alone(question, client, env) ==
    IF client = "None" \/ env.schema = "raised" \/ env.completion = "raised"
    THEN Recover(question, <<>>)[1]
    ELSE Some(Sanitize(env.raw))

\* The body and the status chat() returns for the request d when it is
\* served alone, with the client handle client, the outside behaving as in
\* env.
chat_alone(d, client, env) ==
    IF d.kind = "invalid"
    THEN << RespServerError("400 Bad Request: Failed to decode JSON object"), 500 >>
    ELSE IF impl = "app" /\ NotData(d) THEN << RespInvalidJson, 400 >>
    ELSE IF d.kind = "null"
    THEN << RespServerError("'NoneType' object has no attribute 'get'"), 500 >>
    ELSE IF GetMessage(d) = None
    THEN << RespServerError("'NoneType' object has no attribute 'strip'"), 500 >>
    ELSE LET question == Question(d) IN
         IF question = "" THEN << RespEmptyMessage, 400 >>
    ELSE LET sql == generated_alone(question, client, env) IN
         IF Falsy(sql)
         THEN << IF impl = "app" THEN RespNoQuery(client) ELSE MainRespNoQuery, 200 >>
         ELSE LET v == Validate(sql) IN
         IF ~v.valid THEN << RespFailed(v.message, sql[1]), 200 >>
         ELSE IF env.engine = "raised"
         THEN << RespFailed(ExecuteError(env.error), sql[1]), 200 >>
         ELSE << IF impl = "app" THEN RespSuccess(sql[1], FormatRows(env.rows))
                 ELSE MainRespSuccess(sql[1], env.rows), 200 >>

\* What the engine did for the thread is something it can do for the same
\* statement on the store db.
EngineCould(local, db) ==
    /\ local.engine = "returned" =>
          \E o \in cursor_execute(db, local.sql_query[1]) : o.ok /\ o.rows = local.rows
    /\ local.engine = "raised" =>
          \/ local.error = ConnectError
          \/ \E o \in cursor_execute(db, local.sql_query[1]) :
                ~o.ok /\ o.error = local.error

\* The thread returned what chat() returns for its request served alone on
\* the store as it was at start-up.
AsAlone(t) ==
    /\ << threads[t].response, threads[t].http_status >>
           = chat_alone(threads[t].data, groq_client, threads[t])
    /\ EngineCould(threads[t], SampleDatabase)

\* C23: requests served at the same time are independent: however their
\* steps interleave, each is answered as it would be answered alone on the
\* same store, with the same client handle and the same behaviour of the
\* completion service and the engine; and no step of a request assigns the
\* client handle, changes the store or touches the locals of another
\* request.
C23_RequestsIndependent ==
    /\ [](\A t \in Threads : threads[t].pc = "responded" => AsAlone(t))
    /\ [][/\ groq_client' = groq_client
          /\ database' = database
          /\ \A t, u \in Threads :
                (t # u /\ threads'[t] # threads[t]) => threads'[u] = threads[u]]_vars

\* Two threads have answered their requests, one from the model's
\* statement and one from the fallback after the completion call raised.
C23_Witness ==
    /\ \A t \in Threads : threads[t].pc = "responded"
    /\ \E t, u \in Threads :
          /\ t # u
          /\ threads[t].completion = "returned"
          /\ threads[t].engine = "returned"
          /\ threads[u].completion = "raised"
          /\ threads[u].engine = "returned"

-----------------------------------------------------------------------------
(* Properties of validate_sql_query (checked under SpecValidator) *)

\* What delimits a token: space, tab, line break.
Delimiters == {" ", "\t", "\n", "\r"}

\* word occurs in s bounded on each side by a delimiter or by an end of s.
HasToken(s, word) ==
    \E i \in 1..Len(s) :
        /\ OccursAt(s, word, i)
        /\ i = 1 \/ CharAt(s, i - 1) \in Delimiters
        /\ i + Len(word) - 1 = Len(s) \/ CharAt(s, i + Len(word)) \in Delimiters

ForbiddenTokens(s) ==
    {dangerous_keywords[k] : k \in {j \in 1..Len(dangerous_keywords) :
                                        HasToken(s, dangerous_keywords[j])}}

Normalized(text) == upper(strip(text))

Accepted == verdict # NoVerdict /\ verdict[1].valid

\* C2: if validate_sql_query accepts a statement, its uppercased text holds
\* none of the forbidden keywords as a token delimited by whitespace (space,
\* tab, line break) or by the start or end of the statement.
C2_AcceptedHasNoForbiddenToken ==
    Accepted => ForbiddenTokens(Normalized(query)) = {}

\* The statement begins with the word SELECT, delimited by whitespace or by
\* the end of the statement.
FirstTokenIsSelect(s) ==
    /\ startswith(s, "SELECT")
    /\ Len(s) = Len("SELECT") \/ CharAt(s, Len("SELECT") + 1) \in Delimiters

\* C3: every non-empty statement whose trimmed, uppercased form does not
\* begin with the token SELECT is rejected with the non-SELECT reason.
C3_NonSelectRejected ==
    (/\ verdict # NoVerdict
     /\ strip(query) # ""
     /\ ~FirstTokenIsSelect(Normalized(query)))
    => verdict[1] = Verdict(FALSE, MsgNonSelect)

\* first occurs in s and second occurs somewhere after it.
FollowedLater(s, first, second) ==
    \E i \in 1..Len(s) :
        /\ OccursAt(s, first, i)
        /\ \E j \in (i + Len(first))..Len(s) : OccursAt(s, second, j)

\* '1', optional whitespace, '=', optional whitespace, '1' at position i.
TautologyAt(s, i) ==
    /\ OccursAt(s, "1", i)
    /\ \E j \in (i + 1)..Len(s) :
          /\ \A t \in (i + 1)..(j - 1) : CharAt(s, t) \in Delimiters
          /\ OccursAt(s, "=", j)
          /\ \E k \in (j + 1)..Len(s) :
                /\ \A t \in (j + 1)..(k - 1) : CharAt(s, t) \in Delimiters
                /\ OccursAt(s, "1", k)

\* A semicolon, optional whitespace, then DROP, DELETE, INSERT or UPDATE.
SemicolonThenMutation(s) ==
    \E i \in 1..Len(s) :
        /\ OccursAt(s, ";", i)
        /\ \E j \in (i + 1)..Len(s) :
              /\ \A t \in (i + 1)..(j - 1) : CharAt(s, t) \in Delimiters
              /\ \E w \in {"DROP", "DELETE", "INSERT", "UPDATE"} : OccursAt(s, w, j)

\* The injection shapes, whatever the layout of the statement.
HasInjectionShape(s) ==
    \/ SemicolonThenMutation(s)
    \/ Contains(s, "--")
    \/ Contains(s, "/*") \/ Contains(s, "*/")
    \/ FollowedLater(s, "UNION", "SELECT")
    \/ \E w \in {"OR", "AND"} :
          \E i \in 1..Len(s) :
              /\ OccursAt(s, w, i)
              /\ \E j \in (i + Len(w))..Len(s) : TautologyAt(s, j)

\* C4: a statement that starts with SELECT, has no forbidden keyword token
\* and shows an injection shape is rejected with the injection reason, also
\* when the statement spans several lines.
C4_InjectionShapeRejected ==
    (/\ verdict # NoVerdict
     /\ FirstTokenIsSelect(Normalized(query))
     /\ ForbiddenTokens(Normalized(query)) = {}
     /\ HasInjectionShape(Normalized(query)))
    => verdict[1] = Verdict(FALSE, MsgInjection)


\* word occurs in s bounded on each side by a space or by an end of s.
HasSpacedToken(s, word) ==
    \E i \in 1..Len(s) :
        /\ OccursAt(s, word, i)
        /\ i = 1 \/ CharAt(s, i - 1) = " "
        /\ i + Len(word) - 1 = Len(s) \/ CharAt(s, i + Len(word)) = " "

\* The forbidden keywords that stand between spaces in s, by their index.
SpacedKeywords(s) ==
    {k \in 1..Len(dangerous_keywords) : HasSpacedToken(s, dangerous_keywords[k])}

\* One of the injection patterns is found in s.
InjectionFound(s) ==
    \E p \in 1..Len(injection_patterns) : re_search(injection_patterns[p], s)

-----------------------------------------------------------------------------
(* Properties of generate_fallback_sql (checked under SpecFallback) *)

\* The triggers in the order customer listing, customer count, order
\* listing, order count, product listing, employee listing, electronics
\* revenue, top customers: whether trigger k matches the lowercased question.
TriggerMatches(k, q) ==
    CASE k = 1 -> ContainsAny(q, <<"all customers", "show customers", "list customers">>)
      [] k = 2 -> ContainsAny(q, <<"count customers", "how many customers">>)
      [] k = 3 -> ContainsAny(q, <<"all orders", "show orders", "list orders">>)
      [] k = 4 -> ContainsAny(q, <<"count orders", "how many orders">>)
      [] k = 5 -> ContainsAny(q, <<"all products", "show products", "list products">>)
      [] k = 6 -> ContainsAny(q, <<"all employees", "show employees", "list employees">>)
      [] k = 7 -> Contains(q, "revenue") /\ Contains(q, "electronics")
      [] k = 8 -> Contains(q, "top") /\ Contains(q, "customers")

\* The statements trigger k can answer with.
TriggerStatements(k) ==
    CASE k = 1 -> { "SELECT * FROM customers",
                    "SELECT * FROM customers WHERE status = 'active'" }
      [] k = 2 -> { "SELECT COUNT(*) as customer_count FROM customers" }
      [] k = 3 -> { "SELECT * FROM orders ORDER BY order_date DESC" }
      [] k = 4 -> { "SELECT COUNT(*) as order_count FROM orders" }
      [] k = 5 -> { "SELECT * FROM products",
                    "SELECT * FROM products WHERE category = 'Electronics'" }
      [] k = 6 -> { "SELECT * FROM employees WHERE status = 'active'" }
      [] k = 7 -> { "SELECT SUM(total_amount) as total_revenue FROM orders WHERE category = 'Electronics'" }
      [] k = 8 -> { "SELECT c.name, c.email, SUM(o.total_amount) as total_spent FROM customers c JOIN orders o ON c.id = o.customer_id GROUP BY c.id, c.name, c.email ORDER BY total_spent DESC LIMIT 5" }

MatchingTriggers(q) == { k \in 1..8 : TriggerMatches(k, q) }

\* The first trigger that matches, 0 when none does.
FirstTrigger(q) ==
    IF MatchingTriggers(q) = {} THEN 0
    ELSE CHOOSE k \in MatchingTriggers(q) : \A j \in MatchingTriggers(q) : k <= j

\* C11: generate_fallback_sql is a function of the lowercased question; it
\* returns a statement of the first trigger, in the fixed order, that matches
\* (whatever later triggers match too), no statement when none matches, and
\* every invocation on the same question returns the same result.
C11_FirstTriggerWins ==
    \A i \in 1..Len(fallback_results) :
        LET result == fallback_results[i]
            q == lower(fallback_question)
            k == FirstTrigger(q)
        IN /\ result = fallback_results[1]
           /\ result = generate_fallback_sql(q)
           /\ IF k = 0 THEN result = None
              ELSE result # None /\ result[1] \in TriggerStatements(k)

\* A question that matches the customer listing trigger and the customer
\* count trigger was answered twice, with a customer listing statement.
C11_Witness ==
    /\ Len(fallback_results) = MaxInvocations
    /\ fallback_question # lower(fallback_question)
    /\ TriggerMatches(1, lower(fallback_question))
    /\ TriggerMatches(2, lower(fallback_question))
    /\ fallback_results[2] = Some("SELECT * FROM customers")

\* The characters of an SQL name.
NameChars == Letters(LowerAlpha) \cup Letters(UpperAlpha) \cup {"_"}

\* A word of the statement starts at i: a name character that follows none.
WordStartsAt(stmt, i) ==
    /\ CharAt(stmt, i) \in NameChars
    /\ i = 1 \/ CharAt(stmt, i - 1) \notin NameChars

\* Where the word that starts at i ends.
WordEnd(stmt, i) ==
    CHOOSE j \in i..Len(stmt) :
        /\ \A k \in i..j : CharAt(stmt, k) \in NameChars
        /\ j = Len(stmt) \/ CharAt(stmt, j + 1) \notin NameChars

\* The words of stmt[lo..hi] in order, each with the character before it.
RECURSIVE Words(_, _, _)
Words(stmt, lo, hi) ==
    IF lo > hi THEN <<>>
    ELSE IF lo = hi
    THEN IF WordStartsAt(stmt, lo)
         THEN << [text |-> SubSeq(stmt, lo, WordEnd(stmt, lo)),
                  before |-> IF lo = 1 THEN "" ELSE CharAt(stmt, lo - 1)] >>
         ELSE <<>>
    ELSE Words(stmt, lo, (lo + hi) \div 2) \o Words(stmt, (lo + hi) \div 2 + 1, hi)

\* The words of SQL in the canned statements.
SqlWords ==
    { "SELECT", "FROM", "WHERE", "COUNT", "AS", "ORDER", "BY", "DESC", "SUM",
      "JOIN", "ON", "GROUP", "LIMIT" }

\* The tables a statement reads (the words after FROM and JOIN), the names
\* it introduces (after AS, and after a table), and the columns it refers
\* to: every other word that is neither a word of SQL nor inside a literal.
NamesOf(stmt) ==
    LET words == Words(stmt, 1, Len(stmt))
        after(set) == { words[i].text :
                          i \in { j \in DOMAIN words :
                                    j > 1 /\ upper(words[j - 1].text) \in set } }
        tables == after({"FROM", "JOIN"})
        plain == { words[i].text :
                     i \in { j \in DOMAIN words :
                               /\ upper(words[j].text) \notin SqlWords
                               /\ words[j].before # "'" } }
        aliases == after({"AS"}) \cup
                   { words[i].text :
                       i \in { j \in DOMAIN words :
                                 /\ j > 1
                                 /\ words[j - 1].text \in tables
                                 /\ upper(words[j].text) \notin SqlWords
                                 /\ words[j].before = " " } }
    IN [tables |-> tables, columns |-> (plain \ tables) \ aliases]

\* The statement names only tables of the schema and columns of the tables
\* it names.
RefersToSchema(stmt) ==
    /\ NamesOf(stmt).tables # {}
    /\ NamesOf(stmt).tables \subseteq DOMAIN Schema
    /\ NamesOf(stmt).columns \subseteq UNION { Schema[t] : t \in NamesOf(stmt).tables }

\* The store holds the tables of the schema, its rows columns of theirs.
StoreFollowsSchema(db) ==
    /\ db.tables = DOMAIN Schema
    /\ \A t \in DOMAIN Schema : \A i \in DOMAIN db[t] : DOMAIN db[t][i] \subseteq Schema[t]

\* C24: every statement generate_fallback_sql returns is non-empty, is
\* accepted by validate_sql_query, names only tables and columns that
\* init_database creates, and is answered with rows, never refused, by the
\* engine on the initialised store.
C24_FallbackStatementsRun ==
    \A i \in 1..Len(fallback_results) :
        fallback_results[i] # None =>
            LET stmt == fallback_results[i][1] IN
            /\ stmt # ""
            /\ validate_sql_query(Some(stmt)).valid
            /\ RefersToSchema(stmt)
            /\ StoreFollowsSchema(SampleDatabase)
            /\ RunStatement(SampleDatabase, stmt) # {}
            /\ \A o \in RunStatement(SampleDatabase, stmt) : o.ok
            /\ \E o \in cursor_execute(SampleDatabase, stmt) : o.ok

\* A question about the electronics revenue was answered with the statement
\* that sums total_amount over the orders of that category.
C24_Witness ==
    /\ fallback_results # <<>>
    /\ fallback_results[1] # None
    /\ fallback_results[1][1] =
         "SELECT SUM(total_amount) as total_revenue FROM orders WHERE category = 'Electronics'"
    /\ NamesOf(fallback_results[1][1]) =
         [tables |-> {"orders"}, columns |-> {"total_amount", "category"}]

\* C25: the modifiers are substring tests made inside their listing trigger
\* only.  The statement for active customers is returned exactly when the
\* lowercased question holds one of the customer listing phrases and holds
\* 'active' anywhere, inside another word included; a customer listing
\* without it returns SELECT * FROM customers.  Likewise 'electronics' picks
\* the electronics products only where the product listing is the first
\* trigger that matches.
C25_ModifiersInsideListing ==
    \A i \in 1..Len(fallback_results) :
        LET result == fallback_results[i]
            q == lower(fallback_question)
            listing == ContainsAny(q, <<"all customers", "show customers", "list customers">>)
        IN /\ result = Some("SELECT * FROM customers WHERE status = 'active'")
                <=> (listing /\ Contains(q, "active"))
           /\ result = Some("SELECT * FROM customers")
                <=> (listing /\ ~Contains(q, "active"))
           /\ result = Some("SELECT * FROM products WHERE category = 'Electronics'")
                <=> (FirstTrigger(q) = 5 /\ Contains(q, "electronics"))
           /\ result = Some("SELECT * FROM products")
                <=> (FirstTrigger(q) = 5 /\ ~Contains(q, "electronics"))

\* A customer listing question that holds 'active' only inside 'inactive'
\* was answered with the statement for active customers.
C25_Witness ==
    /\ fallback_results # <<>>
    /\ ContainsAny(lower(fallback_question),
                   <<"all customers", "show customers", "list customers">>)
    /\ Contains(lower(fallback_question), "inactive")
    /\ ~Contains(" " \o lower(fallback_question) \o " ", " active ")
    /\ fallback_results[1] = Some("SELECT * FROM customers WHERE status = 'active'")

-----------------------------------------------------------------------------
(* Properties of the response clean-up (checked under SpecCleanup) *)

\* C18: the cleaned candidate neither starts nor ends with a fence marker
\* (an opening marker is removed with or without a language tag) or with
\* whitespace, and content without a fence is returned trimmed and otherwise
\* unchanged.
C18_CandidateHasNoFence ==
    candidate # None =>
        /\ ~startswith(candidate[1], Fence)
        /\ ~endswith(candidate[1], Fence)
        /\ candidate[1] = strip(candidate[1])
        /\ ~Contains(content, Fence) => candidate[1] = strip(content)

=============================================================================
